---- MODULE Spec2Model ----
(* A model of the trivia API: the request handlers of                       *)
(* backend/flaskr/__init__.py in front of a store of questions and          *)
(* categories.  Each handler is an operator from the request and the store  *)
(* to a response (and, for the two mutations, the new store); each action   *)
(* is one whole request, but for DELETE /questions/{id}, which asks the     *)
(* store twice and lets other requests in between.                          *)
EXTENDS Integers, Sequences, FiniteSets, TLC

VARIABLES questions, heap, categories, nextId, pending, request, response,
          ops, deleted, round, quizCat, prev

vars == <<questions, heap, categories, nextId, pending, request, response,
          ops, deleted, round, quizCat, prev>>

(* ---------------------------------------------------------------------- *)
(* Bounds of the model.                                                    *)
(* ---------------------------------------------------------------------- *)
\* The largest number of questions the store is seeded with.
MaxSeed == 12
\* The number of create and delete requests that reach the store's insert or
\* delete in one behaviour.
MaxOps == 2

(* ---------------------------------------------------------------------- *)
(* Program constants.                                                      *)
(* ---------------------------------------------------------------------- *)
QUESTIONS_PER_PAGE == 10

None == "None"

(* ---------------------------------------------------------------------- *)
(* Strings are sequences of characters, a character is its Unicode code   *)
(* point.  The tables are those of Unicode 14, the ones of Python 3.11.     *)
(* ---------------------------------------------------------------------- *)
\* The characters int() skips before and after the literal.
Whitespace ==
  {9, 10, 11, 12, 13, 32, 133, 160, 5760, 8192, 8193, 8194, 8195, 8196, 8197,
   8198, 8199, 8200, 8201, 8202, 8232, 8233, 8239, 8287, 12288}

\* The digit zero of every script with decimal digits; its nine successors
\* are the digits 1 to 9 of the script.
DigitZeros ==
  {48, 1632, 1776, 1984, 2406, 2534, 2662, 2790, 2918, 3046, 3174, 3302, 3430,
   3558, 3664, 3792, 3872, 4160, 4240, 6112, 6160, 6470, 6608, 6784, 6800,
   6992, 7088, 7232, 7248, 42528, 43216, 43264, 43472, 43504, 43600, 44016,
   65296, 66720, 68912, 69734, 69872, 69942, 70096, 70384, 70736, 70864,
   71248, 71360, 71472, 71904, 72016, 72784, 73040, 73120, 92768, 92864,
   93008, 120782, 120792, 120802, 120812, 120822, 123200, 123632, 125264,
   130032}

\* The most digits int() reads before it refuses the literal.
MaxStrDigits == 4300

IsDigit(c) == \E z \in DigitZeros : z <= c /\ c <= z + 9

DigitVal(c) == c - (CHOOSE z \in DigitZeros : z <= c /\ c <= z + 9)

RECURSIVE LStrip(_)
LStrip(s) ==
  IF s # <<>> /\ s[1] \in Whitespace THEN LStrip(Tail(s)) ELSE s

RECURSIVE RStrip(_)
RStrip(s) ==
  IF s # <<>> /\ s[Len(s)] \in Whitespace
  THEN RStrip(SubSeq(s, 1, Len(s) - 1)) ELSE s

\* What int() reads after the white space around the literal and its sign,
\* "+" (43) or "-" (45).
Unsigned(s) ==
  LET t == LStrip(RStrip(s))
  IN  IF t # <<>> /\ t[1] \in {43, 45} THEN Tail(t) ELSE t

\* The digits of s read as a decimal number, underscores (95) skipped.
RECURSIVE DecimalOf(_)
DecimalOf(s) ==
  IF s = <<>> THEN 0
  ELSE IF s[Len(s)] = 95 THEN DecimalOf(SubSeq(s, 1, Len(s) - 1))
  ELSE DecimalOf(SubSeq(s, 1, Len(s) - 1)) * 10 + DigitVal(s[Len(s)])

\* int(s) succeeds: white space around, an optional sign, and at least one
\* digit and at most MaxStrDigits of them, of any script, with single
\* underscores allowed between digits.
IsIntLiteral(s) ==
  LET d == Unsigned(s)
  IN  /\ d # <<>>
      /\ \A i \in 1..Len(d) :
           \/ IsDigit(d[i])
           \/ /\ d[i] = 95
              /\ 1 < i
              /\ i < Len(d)
              /\ IsDigit(d[i - 1])
              /\ IsDigit(d[i + 1])
      /\ Len(SelectSeq(d, IsDigit)) <= MaxStrDigits

\* int(s) for a string on which it succeeds.
IntOf(s) ==
  LET t == LStrip(RStrip(s))
  IN  IF t[1] = 45 THEN 0 - DecimalOf(Unsigned(s))
      ELSE DecimalOf(Unsigned(s))

\* The characters str.lower() replaces by one other character: the runs
\* <<first, last, step, offset>> of characters first, first + step, .. last
\* whose lower case is offset further.
LowerRuns ==
  {<<65, 90, 1, 32>>, <<192, 214, 1, 32>>, <<216, 222, 1, 32>>,
   <<256, 302, 2, 1>>, <<306, 310, 2, 1>>, <<313, 327, 2, 1>>,
   <<330, 374, 2, 1>>, <<376, 376, 1, -121>>, <<377, 381, 2, 1>>,
   <<385, 385, 1, 210>>, <<386, 388, 2, 1>>, <<390, 390, 1, 206>>,
   <<391, 391, 1, 1>>, <<393, 394, 1, 205>>, <<395, 395, 1, 1>>,
   <<398, 398, 1, 79>>, <<399, 399, 1, 202>>, <<400, 400, 1, 203>>,
   <<401, 401, 1, 1>>, <<403, 403, 1, 205>>, <<404, 404, 1, 207>>,
   <<406, 406, 1, 211>>, <<407, 407, 1, 209>>, <<408, 408, 1, 1>>,
   <<412, 412, 1, 211>>, <<413, 413, 1, 213>>, <<415, 415, 1, 214>>,
   <<416, 420, 2, 1>>, <<422, 422, 1, 218>>, <<423, 423, 1, 1>>,
   <<425, 425, 1, 218>>, <<428, 428, 1, 1>>, <<430, 430, 1, 218>>,
   <<431, 431, 1, 1>>, <<433, 434, 1, 217>>, <<435, 437, 2, 1>>,
   <<439, 439, 1, 219>>, <<440, 440, 1, 1>>, <<444, 444, 1, 1>>,
   <<452, 452, 1, 2>>, <<453, 453, 1, 1>>, <<455, 455, 1, 2>>,
   <<456, 456, 1, 1>>, <<458, 458, 1, 2>>, <<459, 475, 2, 1>>,
   <<478, 494, 2, 1>>, <<497, 497, 1, 2>>, <<498, 500, 2, 1>>,
   <<502, 502, 1, -97>>, <<503, 503, 1, -56>>, <<504, 542, 2, 1>>,
   <<544, 544, 1, -130>>, <<546, 562, 2, 1>>, <<570, 570, 1, 10795>>,
   <<571, 571, 1, 1>>, <<573, 573, 1, -163>>, <<574, 574, 1, 10792>>,
   <<577, 577, 1, 1>>, <<579, 579, 1, -195>>, <<580, 580, 1, 69>>,
   <<581, 581, 1, 71>>, <<582, 590, 2, 1>>, <<880, 882, 2, 1>>,
   <<886, 886, 1, 1>>, <<895, 895, 1, 116>>, <<902, 902, 1, 38>>,
   <<904, 906, 1, 37>>, <<908, 908, 1, 64>>, <<910, 911, 1, 63>>,
   <<913, 929, 1, 32>>, <<931, 939, 1, 32>>, <<975, 975, 1, 8>>,
   <<984, 1006, 2, 1>>, <<1012, 1012, 1, -60>>, <<1015, 1015, 1, 1>>,
   <<1017, 1017, 1, -7>>, <<1018, 1018, 1, 1>>, <<1021, 1023, 1, -130>>,
   <<1024, 1039, 1, 80>>, <<1040, 1071, 1, 32>>, <<1120, 1152, 2, 1>>,
   <<1162, 1214, 2, 1>>, <<1216, 1216, 1, 15>>, <<1217, 1229, 2, 1>>,
   <<1232, 1326, 2, 1>>, <<1329, 1366, 1, 48>>, <<4256, 4293, 1, 7264>>,
   <<4295, 4295, 1, 7264>>, <<4301, 4301, 1, 7264>>, <<5024, 5103, 1, 38864>>,
   <<5104, 5109, 1, 8>>, <<7312, 7354, 1, -3008>>, <<7357, 7359, 1, -3008>>,
   <<7680, 7828, 2, 1>>, <<7838, 7838, 1, -7615>>, <<7840, 7934, 2, 1>>,
   <<7944, 7951, 1, -8>>, <<7960, 7965, 1, -8>>, <<7976, 7983, 1, -8>>,
   <<7992, 7999, 1, -8>>, <<8008, 8013, 1, -8>>, <<8025, 8031, 2, -8>>,
   <<8040, 8047, 1, -8>>, <<8072, 8079, 1, -8>>, <<8088, 8095, 1, -8>>,
   <<8104, 8111, 1, -8>>, <<8120, 8121, 1, -8>>, <<8122, 8123, 1, -74>>,
   <<8124, 8124, 1, -9>>, <<8136, 8139, 1, -86>>, <<8140, 8140, 1, -9>>,
   <<8152, 8153, 1, -8>>, <<8154, 8155, 1, -100>>, <<8168, 8169, 1, -8>>,
   <<8170, 8171, 1, -112>>, <<8172, 8172, 1, -7>>, <<8184, 8185, 1, -128>>,
   <<8186, 8187, 1, -126>>, <<8188, 8188, 1, -9>>, <<8486, 8486, 1, -7517>>,
   <<8490, 8490, 1, -8383>>, <<8491, 8491, 1, -8262>>, <<8498, 8498, 1, 28>>,
   <<8544, 8559, 1, 16>>, <<8579, 8579, 1, 1>>, <<9398, 9423, 1, 26>>,
   <<11264, 11311, 1, 48>>, <<11360, 11360, 1, 1>>,
   <<11362, 11362, 1, -10743>>, <<11363, 11363, 1, -3814>>,
   <<11364, 11364, 1, -10727>>, <<11367, 11371, 2, 1>>,
   <<11373, 11373, 1, -10780>>, <<11374, 11374, 1, -10749>>,
   <<11375, 11375, 1, -10783>>, <<11376, 11376, 1, -10782>>,
   <<11378, 11378, 1, 1>>, <<11381, 11381, 1, 1>>,
   <<11390, 11391, 1, -10815>>, <<11392, 11490, 2, 1>>,
   <<11499, 11501, 2, 1>>, <<11506, 11506, 1, 1>>, <<42560, 42604, 2, 1>>,
   <<42624, 42650, 2, 1>>, <<42786, 42798, 2, 1>>, <<42802, 42862, 2, 1>>,
   <<42873, 42875, 2, 1>>, <<42877, 42877, 1, -35332>>,
   <<42878, 42886, 2, 1>>, <<42891, 42891, 1, 1>>,
   <<42893, 42893, 1, -42280>>, <<42896, 42898, 2, 1>>,
   <<42902, 42920, 2, 1>>, <<42922, 42922, 1, -42308>>,
   <<42923, 42923, 1, -42319>>, <<42924, 42924, 1, -42315>>,
   <<42925, 42925, 1, -42305>>, <<42926, 42926, 1, -42308>>,
   <<42928, 42928, 1, -42258>>, <<42929, 42929, 1, -42282>>,
   <<42930, 42930, 1, -42261>>, <<42931, 42931, 1, 928>>,
   <<42932, 42946, 2, 1>>, <<42948, 42948, 1, -48>>,
   <<42949, 42949, 1, -42307>>, <<42950, 42950, 1, -35384>>,
   <<42951, 42953, 2, 1>>, <<42960, 42960, 1, 1>>, <<42966, 42968, 2, 1>>,
   <<42997, 42997, 1, 1>>, <<65313, 65338, 1, 32>>, <<66560, 66599, 1, 40>>,
   <<66736, 66771, 1, 40>>, <<66928, 66964, 2, 39>>, <<66929, 66937, 2, 39>>,
   <<66941, 66953, 2, 39>>, <<66957, 66961, 2, 39>>, <<66965, 66965, 1, 39>>,
   <<68736, 68786, 1, 64>>, <<71840, 71871, 1, 32>>, <<93760, 93791, 1, 32>>,
   <<125184, 125217, 1, 34>>}

\* The characters str.lower() ignores when it looks for the letter next to a
\* capital sigma: runs <<first, last, step>>.
CaseIgnorableRuns ==
  {<<39, 39, 1>>, <<46, 46, 1>>, <<58, 58, 1>>, <<94, 96, 2>>,
   <<168, 168, 1>>, <<173, 175, 2>>, <<180, 180, 1>>, <<183, 184, 1>>,
   <<688, 879, 1>>, <<884, 885, 1>>, <<890, 890, 1>>, <<900, 901, 1>>,
   <<903, 903, 1>>, <<1155, 1161, 1>>, <<1369, 1369, 1>>, <<1375, 1375, 1>>,
   <<1425, 1469, 1>>, <<1471, 1473, 2>>, <<1474, 1476, 2>>, <<1477, 1479, 2>>,
   <<1524, 1524, 1>>, <<1536, 1541, 1>>, <<1552, 1562, 1>>, <<1564, 1564, 1>>,
   <<1600, 1600, 1>>, <<1611, 1631, 1>>, <<1648, 1648, 1>>, <<1750, 1757, 1>>,
   <<1759, 1768, 1>>, <<1770, 1773, 1>>, <<1807, 1809, 2>>, <<1840, 1866, 1>>,
   <<1958, 1968, 1>>, <<2027, 2037, 1>>, <<2042, 2042, 1>>, <<2045, 2045, 1>>,
   <<2070, 2093, 1>>, <<2137, 2139, 1>>, <<2184, 2184, 1>>, <<2192, 2193, 1>>,
   <<2200, 2207, 1>>, <<2249, 2306, 1>>, <<2362, 2364, 2>>, <<2369, 2376, 1>>,
   <<2381, 2381, 1>>, <<2385, 2391, 1>>, <<2402, 2403, 1>>, <<2417, 2417, 1>>,
   <<2433, 2433, 1>>, <<2492, 2492, 1>>, <<2497, 2500, 1>>, <<2509, 2509, 1>>,
   <<2530, 2531, 1>>, <<2558, 2558, 1>>, <<2561, 2562, 1>>, <<2620, 2620, 1>>,
   <<2625, 2626, 1>>, <<2631, 2632, 1>>, <<2635, 2637, 1>>, <<2641, 2641, 1>>,
   <<2672, 2673, 1>>, <<2677, 2677, 1>>, <<2689, 2690, 1>>, <<2748, 2748, 1>>,
   <<2753, 2757, 1>>, <<2759, 2760, 1>>, <<2765, 2765, 1>>, <<2786, 2787, 1>>,
   <<2810, 2815, 1>>, <<2817, 2817, 1>>, <<2876, 2876, 1>>, <<2879, 2883, 2>>,
   <<2882, 2884, 2>>, <<2893, 2893, 1>>, <<2901, 2902, 1>>, <<2914, 2915, 1>>,
   <<2946, 2946, 1>>, <<3008, 3008, 1>>, <<3021, 3021, 1>>, <<3072, 3072, 1>>,
   <<3076, 3076, 1>>, <<3132, 3136, 2>>, <<3135, 3135, 1>>, <<3142, 3148, 2>>,
   <<3143, 3143, 1>>, <<3147, 3149, 2>>, <<3157, 3158, 1>>, <<3170, 3171, 1>>,
   <<3201, 3201, 1>>, <<3260, 3260, 1>>, <<3263, 3263, 1>>, <<3270, 3270, 1>>,
   <<3276, 3277, 1>>, <<3298, 3299, 1>>, <<3328, 3329, 1>>, <<3387, 3388, 1>>,
   <<3393, 3396, 1>>, <<3405, 3405, 1>>, <<3426, 3427, 1>>, <<3457, 3457, 1>>,
   <<3530, 3530, 1>>, <<3538, 3540, 1>>, <<3542, 3542, 1>>, <<3633, 3633, 1>>,
   <<3636, 3642, 1>>, <<3654, 3662, 1>>, <<3761, 3761, 1>>, <<3764, 3772, 1>>,
   <<3782, 3788, 2>>, <<3785, 3789, 2>>, <<3864, 3865, 1>>, <<3893, 3897, 2>>,
   <<3953, 3966, 1>>, <<3968, 3972, 1>>, <<3974, 3975, 1>>, <<3981, 4027, 2>>,
   <<3982, 3990, 2>>, <<3994, 4028, 2>>, <<4038, 4038, 1>>, <<4141, 4144, 1>>,
   <<4146, 4151, 1>>, <<4153, 4154, 1>>, <<4157, 4158, 1>>, <<4184, 4185, 1>>,
   <<4190, 4192, 1>>, <<4209, 4212, 1>>, <<4226, 4226, 1>>, <<4229, 4230, 1>>,
   <<4237, 4237, 1>>, <<4253, 4253, 1>>, <<4348, 4348, 1>>, <<4957, 4959, 1>>,
   <<5906, 5908, 1>>, <<5938, 5939, 1>>, <<5970, 5971, 1>>, <<6002, 6003, 1>>,
   <<6068, 6069, 1>>, <<6071, 6077, 1>>, <<6086, 6086, 1>>, <<6089, 6099, 1>>,
   <<6103, 6103, 1>>, <<6109, 6109, 1>>, <<6155, 6159, 1>>, <<6211, 6211, 1>>,
   <<6277, 6278, 1>>, <<6313, 6313, 1>>, <<6432, 6434, 1>>, <<6439, 6440, 1>>,
   <<6450, 6450, 1>>, <<6457, 6459, 1>>, <<6679, 6680, 1>>, <<6683, 6683, 1>>,
   <<6742, 6754, 2>>, <<6745, 6749, 2>>, <<6757, 6764, 1>>, <<6771, 6780, 1>>,
   <<6783, 6783, 1>>, <<6823, 6823, 1>>, <<6832, 6862, 1>>, <<6912, 6915, 1>>,
   <<6964, 6972, 2>>, <<6967, 6969, 2>>, <<6978, 6978, 1>>, <<7019, 7027, 1>>,
   <<7040, 7041, 1>>, <<7074, 7077, 1>>, <<7080, 7081, 1>>, <<7083, 7085, 1>>,
   <<7142, 7144, 2>>, <<7145, 7145, 1>>, <<7149, 7153, 2>>, <<7152, 7152, 1>>,
   <<7212, 7219, 1>>, <<7222, 7223, 1>>, <<7288, 7293, 1>>, <<7376, 7400, 2>>,
   <<7377, 7377, 1>>, <<7381, 7391, 2>>, <<7395, 7399, 2>>, <<7405, 7405, 1>>,
   <<7412, 7412, 1>>, <<7416, 7417, 1>>, <<7468, 7530, 1>>, <<7544, 7544, 1>>,
   <<7579, 7679, 1>>, <<8125, 8129, 2>>, <<8128, 8128, 1>>, <<8141, 8143, 1>>,
   <<8157, 8159, 1>>, <<8173, 8175, 1>>, <<8189, 8190, 1>>, <<8203, 8207, 1>>,
   <<8216, 8217, 1>>, <<8228, 8228, 1>>, <<8231, 8231, 1>>, <<8234, 8238, 1>>,
   <<8288, 8302, 2>>, <<8289, 8291, 2>>, <<8295, 8305, 2>>, <<8319, 8319, 1>>,
   <<8336, 8348, 1>>, <<8400, 8432, 1>>, <<11388, 11389, 1>>,
   <<11503, 11505, 1>>, <<11631, 11631, 1>>, <<11647, 11647, 1>>,
   <<11744, 11775, 1>>, <<11823, 11823, 1>>, <<12293, 12293, 1>>,
   <<12330, 12333, 1>>, <<12337, 12341, 1>>, <<12347, 12347, 1>>,
   <<12441, 12446, 1>>, <<12540, 12542, 1>>, <<40981, 40981, 1>>,
   <<42232, 42237, 1>>, <<42508, 42508, 1>>, <<42607, 42610, 1>>,
   <<42612, 42621, 1>>, <<42623, 42623, 1>>, <<42652, 42655, 1>>,
   <<42736, 42737, 1>>, <<42752, 42785, 1>>, <<42864, 42864, 1>>,
   <<42888, 42890, 1>>, <<42994, 42996, 1>>, <<43000, 43001, 1>>,
   <<43010, 43010, 1>>, <<43014, 43014, 1>>, <<43019, 43019, 1>>,
   <<43045, 43046, 1>>, <<43052, 43052, 1>>, <<43204, 43205, 1>>,
   <<43232, 43249, 1>>, <<43263, 43263, 1>>, <<43302, 43309, 1>>,
   <<43335, 43345, 1>>, <<43392, 43394, 1>>, <<43443, 43443, 1>>,
   <<43446, 43449, 1>>, <<43452, 43453, 1>>, <<43471, 43471, 1>>,
   <<43493, 43494, 1>>, <<43561, 43566, 1>>, <<43569, 43570, 1>>,
   <<43573, 43574, 1>>, <<43587, 43587, 1>>, <<43596, 43596, 1>>,
   <<43632, 43632, 1>>, <<43644, 43644, 1>>, <<43696, 43700, 2>>,
   <<43699, 43699, 1>>, <<43703, 43704, 1>>, <<43710, 43711, 1>>,
   <<43713, 43713, 1>>, <<43741, 43741, 1>>, <<43756, 43757, 1>>,
   <<43763, 43764, 1>>, <<43766, 43766, 1>>, <<43867, 43871, 1>>,
   <<43881, 43883, 1>>, <<44005, 44005, 1>>, <<44008, 44008, 1>>,
   <<44013, 44013, 1>>, <<64286, 64286, 1>>, <<64434, 64450, 1>>,
   <<65024, 65039, 1>>, <<65043, 65043, 1>>, <<65056, 65071, 1>>,
   <<65106, 65106, 1>>, <<65109, 65109, 1>>, <<65279, 65279, 1>>,
   <<65287, 65287, 1>>, <<65294, 65294, 1>>, <<65306, 65306, 1>>,
   <<65342, 65344, 2>>, <<65392, 65392, 1>>, <<65438, 65439, 1>>,
   <<65507, 65507, 1>>, <<65529, 65531, 1>>, <<66045, 66045, 1>>,
   <<66272, 66272, 1>>, <<66422, 66426, 1>>, <<67456, 67461, 1>>,
   <<67463, 67504, 1>>, <<67506, 67514, 1>>, <<68097, 68099, 1>>,
   <<68101, 68102, 1>>, <<68108, 68111, 1>>, <<68152, 68154, 1>>,
   <<68159, 68159, 1>>, <<68325, 68326, 1>>, <<68900, 68903, 1>>,
   <<69291, 69292, 1>>, <<69446, 69456, 1>>, <<69506, 69509, 1>>,
   <<69633, 69633, 1>>, <<69688, 69702, 1>>, <<69744, 69744, 1>>,
   <<69747, 69748, 1>>, <<69759, 69761, 1>>, <<69811, 69814, 1>>,
   <<69817, 69818, 1>>, <<69821, 69821, 1>>, <<69826, 69826, 1>>,
   <<69837, 69837, 1>>, <<69888, 69890, 1>>, <<69927, 69939, 2>>,
   <<69928, 69930, 2>>, <<69934, 69940, 2>>, <<70003, 70003, 1>>,
   <<70016, 70017, 1>>, <<70070, 70078, 1>>, <<70089, 70092, 1>>,
   <<70095, 70095, 1>>, <<70191, 70193, 1>>, <<70196, 70198, 2>>,
   <<70199, 70199, 1>>, <<70206, 70206, 1>>, <<70367, 70367, 1>>,
   <<70371, 70378, 1>>, <<70400, 70401, 1>>, <<70459, 70460, 1>>,
   <<70464, 70464, 1>>, <<70502, 70508, 1>>, <<70512, 70516, 1>>,
   <<70712, 70719, 1>>, <<70722, 70724, 1>>, <<70726, 70726, 1>>,
   <<70750, 70750, 1>>, <<70835, 70840, 1>>, <<70842, 70842, 1>>,
   <<70847, 70848, 1>>, <<70850, 70851, 1>>, <<71090, 71093, 1>>,
   <<71100, 71101, 1>>, <<71103, 71104, 1>>, <<71132, 71133, 1>>,
   <<71219, 71226, 1>>, <<71229, 71231, 2>>, <<71232, 71232, 1>>,
   <<71339, 71341, 2>>, <<71344, 71349, 1>>, <<71351, 71351, 1>>,
   <<71453, 71455, 1>>, <<71458, 71461, 1>>, <<71463, 71467, 1>>,
   <<71727, 71735, 1>>, <<71737, 71738, 1>>, <<71995, 71996, 1>>,
   <<71998, 71998, 1>>, <<72003, 72003, 1>>, <<72148, 72151, 1>>,
   <<72154, 72155, 1>>, <<72160, 72160, 1>>, <<72193, 72202, 1>>,
   <<72243, 72248, 1>>, <<72251, 72254, 1>>, <<72263, 72263, 1>>,
   <<72273, 72278, 1>>, <<72281, 72283, 1>>, <<72330, 72342, 1>>,
   <<72344, 72345, 1>>, <<72752, 72758, 1>>, <<72760, 72765, 1>>,
   <<72767, 72767, 1>>, <<72850, 72871, 1>>, <<72874, 72880, 1>>,
   <<72882, 72883, 1>>, <<72885, 72886, 1>>, <<73009, 73014, 1>>,
   <<73018, 73020, 2>>, <<73021, 73031, 2>>, <<73024, 73028, 2>>,
   <<73104, 73105, 1>>, <<73109, 73111, 2>>, <<73459, 73460, 1>>,
   <<78896, 78904, 1>>, <<92912, 92916, 1>>, <<92976, 92982, 1>>,
   <<92992, 92995, 1>>, <<94031, 94031, 1>>, <<94095, 94111, 1>>,
   <<94176, 94177, 1>>, <<94179, 94180, 1>>, <<110576, 110579, 1>>,
   <<110581, 110587, 1>>, <<110589, 110590, 1>>, <<113821, 113822, 1>>,
   <<113824, 113827, 1>>, <<118528, 118573, 1>>, <<118576, 118598, 1>>,
   <<119143, 119145, 1>>, <<119155, 119170, 1>>, <<119173, 119179, 1>>,
   <<119210, 119213, 1>>, <<119362, 119364, 1>>, <<121344, 121398, 1>>,
   <<121403, 121452, 1>>, <<121461, 121461, 1>>, <<121476, 121476, 1>>,
   <<121499, 121519, 2>>, <<121500, 121502, 2>>, <<121506, 121518, 2>>,
   <<122880, 122904, 2>>, <<122881, 122885, 2>>, <<122889, 122903, 2>>,
   <<122907, 122913, 1>>, <<122915, 122916, 1>>, <<122918, 122922, 1>>,
   <<123184, 123197, 1>>, <<123566, 123566, 1>>, <<123628, 123631, 1>>,
   <<125136, 125142, 1>>, <<125252, 125259, 1>>, <<127995, 127999, 1>>,
   <<917505, 917505, 1>>, <<917536, 917631, 1>>, <<917760, 917999, 1>>}

\* The cased characters among those it does not ignore: runs
\* <<first, last, step>>.
CasedRuns ==
  {<<65, 90, 1>>, <<97, 122, 1>>, <<170, 170, 1>>, <<181, 181, 1>>,
   <<186, 186, 1>>, <<192, 446, 2>>, <<193, 213, 2>>, <<217, 245, 2>>,
   <<249, 441, 2>>, <<445, 447, 2>>, <<452, 659, 1>>, <<661, 687, 1>>,
   <<880, 883, 1>>, <<886, 887, 1>>, <<891, 893, 1>>, <<895, 895, 1>>,
   <<902, 928, 2>>, <<905, 905, 1>>, <<911, 1153, 2>>, <<932, 1012, 2>>,
   <<1016, 1152, 2>>, <<1162, 1327, 1>>, <<1329, 1366, 1>>, <<1376, 1416, 1>>,
   <<4256, 4293, 1>>, <<4295, 4295, 1>>, <<4301, 4301, 1>>, <<4304, 4346, 1>>,
   <<4349, 4351, 1>>, <<5024, 5109, 1>>, <<5112, 5117, 1>>, <<7296, 7304, 1>>,
   <<7312, 7354, 1>>, <<7357, 7359, 1>>, <<7424, 7467, 1>>, <<7531, 7577, 2>>,
   <<7532, 7542, 2>>, <<7546, 7578, 2>>, <<7680, 7957, 1>>, <<7960, 7965, 1>>,
   <<7968, 8005, 1>>, <<8008, 8013, 1>>, <<8016, 8023, 1>>, <<8025, 8061, 2>>,
   <<8032, 8060, 2>>, <<8064, 8116, 1>>, <<8118, 8124, 1>>, <<8126, 8126, 1>>,
   <<8130, 8140, 2>>, <<8131, 8131, 1>>, <<8135, 8139, 2>>, <<8144, 8147, 1>>,
   <<8150, 8155, 1>>, <<8160, 8172, 1>>, <<8178, 8188, 2>>, <<8179, 8179, 1>>,
   <<8183, 8187, 2>>, <<8450, 8450, 1>>, <<8455, 8455, 1>>, <<8458, 8467, 1>>,
   <<8469, 8469, 1>>, <<8473, 8477, 1>>, <<8484, 8492, 2>>, <<8491, 8499, 2>>,
   <<8496, 8500, 2>>, <<8505, 8505, 1>>, <<8508, 8511, 1>>, <<8517, 8521, 1>>,
   <<8526, 8526, 1>>, <<8544, 8575, 1>>, <<8579, 8580, 1>>, <<9398, 9449, 1>>,
   <<11264, 11387, 1>>, <<11390, 11492, 1>>, <<11499, 11502, 1>>,
   <<11506, 11507, 1>>, <<11520, 11557, 1>>, <<11559, 11559, 1>>,
   <<11565, 11565, 1>>, <<42560, 42605, 1>>, <<42624, 42651, 1>>,
   <<42786, 42863, 1>>, <<42865, 42887, 1>>, <<42891, 42894, 1>>,
   <<42896, 42954, 1>>, <<42960, 42961, 1>>, <<42963, 42969, 2>>,
   <<42966, 42968, 2>>, <<42997, 42998, 1>>, <<43002, 43002, 1>>,
   <<43824, 43866, 1>>, <<43872, 43880, 1>>, <<43888, 43967, 1>>,
   <<64256, 64262, 1>>, <<64275, 64279, 1>>, <<65313, 65338, 1>>,
   <<65345, 65370, 1>>, <<66560, 66639, 1>>, <<66736, 66771, 1>>,
   <<66776, 66811, 1>>, <<66928, 66964, 2>>, <<66929, 66937, 2>>,
   <<66941, 66953, 2>>, <<66957, 66961, 2>>, <<66965, 67003, 2>>,
   <<66968, 66976, 2>>, <<66980, 66992, 2>>, <<66996, 67000, 2>>,
   <<67004, 67004, 1>>, <<68736, 68786, 1>>, <<68800, 68850, 1>>,
   <<71840, 71903, 1>>, <<93760, 93823, 1>>, <<119808, 119892, 1>>,
   <<119894, 119964, 1>>, <<119966, 119967, 1>>, <<119970, 119970, 1>>,
   <<119973, 119974, 1>>, <<119977, 119980, 1>>, <<119982, 119993, 1>>,
   <<119995, 120073, 2>>, <<119998, 120002, 2>>, <<120006, 120068, 2>>,
   <<120072, 120074, 2>>, <<120077, 120084, 1>>, <<120086, 120120, 2>>,
   <<120087, 120091, 2>>, <<120095, 120125, 2>>, <<120124, 120134, 2>>,
   <<120129, 120131, 2>>, <<120138, 120484, 2>>, <<120139, 120143, 2>>,
   <<120147, 120485, 2>>, <<120488, 120778, 2>>, <<120489, 120511, 2>>,
   <<120515, 120537, 2>>, <<120541, 120569, 2>>, <<120573, 120595, 2>>,
   <<120599, 120627, 2>>, <<120631, 120653, 2>>, <<120657, 120685, 2>>,
   <<120689, 120711, 2>>, <<120715, 120743, 2>>, <<120747, 120769, 2>>,
   <<120773, 120779, 2>>, <<122624, 122633, 1>>, <<122635, 122654, 1>>,
   <<125184, 125251, 1>>, <<127280, 127305, 1>>, <<127312, 127337, 1>>,
   <<127344, 127369, 1>>}

InRun(c, r) == r[1] <= c /\ c <= r[2] /\ (c - r[1]) % r[3] = 0

\* The runs of a table that reach into each block of 256 characters: a
\* character is looked up among the runs of its block.
ByBlock(runs) ==
  LET ends == {r[2] \div 256 : r \in runs}
      top == CHOOSE b \in ends : \A e \in ends : e <= b
  IN  [b \in 0..top |->
         {r \in runs : r[1] \div 256 <= b /\ b <= r[2] \div 256}]

LowerBlocks == ByBlock(LowerRuns)

CaseIgnorableBlocks == ByBlock(CaseIgnorableRuns)

CasedBlocks == ByBlock(CasedRuns)

\* The runs of a table that hold the character c.
RunsOf(blocks, c) ==
  IF c \div 256 \in DOMAIN blocks
  THEN {r \in blocks[c \div 256] : InRun(c, r)}
  ELSE {}

IsCaseIgnorable(c) == RunsOf(CaseIgnorableBlocks, c) # {}

IsCased(c) == RunsOf(CasedBlocks, c) # {}

\* str.lower() on a character with a lower case of one character.
LowerChar(c) ==
  LET runs == RunsOf(LowerBlocks, c)
  IN  IF runs = {} THEN c ELSE c + (CHOOSE r \in runs : TRUE)[4]

\* The capital sigma at s[i] ends a word: the nearest character before it
\* that is not ignored is cased, and the nearest one after it is not.
FinalSigma(s, i) ==
  LET before == {j \in 1..(i - 1) : ~IsCaseIgnorable(s[j])}
      after == {j \in (i + 1)..Len(s) : ~IsCaseIgnorable(s[j])}
      last == CHOOSE j \in before : \A k \in before : k <= j
      first == CHOOSE j \in after : \A k \in after : j <= k
  IN  /\ before # {}
      /\ IsCased(s[last])
      /\ after = {} \/ ~IsCased(s[first])

\* The lower case of the character at s[i]: a capital sigma (931) becomes a
\* final (962) or a plain (963) small sigma, a capital I with a dot above
\* (304) becomes an i and a combining dot (105, 775).
LowerAt(s, i) ==
  IF s[i] = 931 THEN <<IF FinalSigma(s, i) THEN 962 ELSE 963>>
  ELSE IF s[i] = 304 THEN <<105, 775>>
  ELSE <<LowerChar(s[i])>>

RECURSIVE Concat(_)
Concat(ss) == IF ss = <<>> THEN <<>> ELSE Head(ss) \o Concat(Tail(ss))

\* str.lower()
lower(s) == Concat([i \in 1..Len(s) |-> LowerAt(s, i)])

\* Python's `sub in s` on strings.
StrIn(sub, s) ==
  \E i \in 0..(Len(s) - Len(sub)) : SubSeq(s, i + 1, i + Len(sub)) = sub

(* ---------------------------------------------------------------------- *)
(* Python list slicing, seq[start:end], on a 1-based sequence.             *)
(* ---------------------------------------------------------------------- *)
ClampIndex(i, len) ==
  LET j == IF i < 0 THEN i + len ELSE i
  IN  IF j < 0 THEN 0 ELSE IF j > len THEN len ELSE j

PySlice(seq, start, end) ==
  LET lo == ClampIndex(start, Len(seq))
      hi == ClampIndex(end, Len(seq))
  IN  IF lo < hi THEN SubSeq(seq, lo + 1, hi) ELSE <<>>

(* ---------------------------------------------------------------------- *)
(* The request: query-string arguments are a list of (key, value) pairs,  *)
(* the JSON body is absent (<<>>) or one dictionary (<<dict>>).            *)
(* ---------------------------------------------------------------------- *)
\* request.args.get(key, default, type=int)
ArgsGetInt(args, key, default) ==
  LET hits == {i \in 1..Len(args) : args[i][1] = key}
  IN  IF hits = {} THEN default
      ELSE LET raw == args[CHOOSE i \in hits : \A j \in hits : i <= j][2]
           IN  IF IsIntLiteral(raw) THEN IntOf(raw) ELSE default

\* dict.get(key): <<>> stands for None, <<v>> for a value.
DictGet(d, key) == IF key \in DOMAIN d THEN <<d[key]>> ELSE <<>>

(* ---------------------------------------------------------------------- *)
(* The store.  questions maps each id to its row, categories each id to   *)
(* its type.  heap is the order in which the store keeps the rows of the   *)
(* questions, the order of a query that asks for none: a list of ids, 0    *)
(* for a slot a deleted row has left free.                                  *)
(* ---------------------------------------------------------------------- *)
\* A Question object: the primary key and the row's columns.
Question(id, row) == [id |-> id, row |-> row]

\* Question.format()
format(q) ==
  [id |-> q.id, question |-> q.row.question, answer |-> q.row.answer,
   category |-> q.row.category, difficulty |-> q.row.difficulty]

\* The ids of S in ascending order.
RECURSIVE Ascending(_)
Ascending(S) ==
  IF S = {} THEN <<>>
  ELSE LET m == CHOOSE x \in S : \A y \in S : x <= y
       IN  <<m>> \o Ascending(S \ {m})

\* The rows with the given ids as Question objects, by ascending id.
Rows(qs, S) ==
  LET ids == Ascending(S)
  IN  [i \in 1..Len(ids) |-> Question(ids[i], qs[ids[i]])]

\* The rows with the given ids as Question objects, in the store's order.
Scan(qs, hp, S) ==
  LET Wanted(id) == id \in S
      ids == SelectSeq(hp, Wanted)
  IN  [i \in 1..Len(ids) |-> Question(ids[i], qs[ids[i]])]

\* Question.query.order_by('id').all()
QueryOrderById(qs) == Rows(qs, DOMAIN qs)

\* Question.query.all(): no order is asked for.
QueryAll(qs, hp) == Scan(qs, hp, DOMAIN qs)

\* Question.query.filter_by(category=category_id).all(): no order is asked
\* for.
QueryFilterByCategory(qs, hp, category_id) ==
  Scan(qs, hp, {id \in DOMAIN qs : qs[id].category = category_id})

\* Question.query.get(question_id): <<>> stands for None.
QueryGet(qs, question_id) ==
  IF question_id \in DOMAIN qs THEN <<Question(question_id, qs[question_id])>>
  ELSE <<>>

\* query.first() on the questions with the ids of S, no order asked for:
\* the first of them in the store's order, <<>> (None) when there is none.
QueryFirst(qs, hp, S) ==
  LET Wanted(id) == id \in S
      ids == SelectSeq(hp, Wanted)
  IN  IF ids = <<>> THEN <<>> ELSE <<Question(ids[1], qs[ids[1]])>>

\* Category.query.get(category_id): <<>> stands for None.
CategoryGet(cats, category_id) ==
  IF category_id \in DOMAIN cats THEN <<category_id>> ELSE <<>>

\* The slots of the heap a new row can take: a free one, or a new one at
\* the end.
Slots(hp) == {i \in 1..Len(hp) : hp[i] = 0} \cup {Len(hp) + 1}

\* Question.insert(): the store assigns the next id of its sequence and
\* keeps the row in the slot it picks.
insert(qs, hp, nid, row, slot) ==
  [questions |-> [id \in DOMAIN qs \cup {nid} |->
                    IF id = nid THEN row ELSE qs[id]],
   heap |-> IF slot = Len(hp) + 1 THEN Append(hp, nid)
            ELSE [hp EXCEPT ![slot] = nid],
   nextId |-> nid + 1]

\* A heap without the free slots at its end.
RECURSIVE Truncate(_)
Truncate(hp) ==
  IF hp # <<>> /\ hp[Len(hp)] = 0 THEN Truncate(SubSeq(hp, 1, Len(hp) - 1))
  ELSE hp

\* Question.delete(): the row's slot becomes free.  When another request
\* has deleted the row since q was looked up, the store is left as it is
\* and the call raises or not (raises), as models.py has it.
delete(qs, hp, q, raises) ==
  IF q.id \in DOMAIN qs
  THEN [questions |-> [x \in DOMAIN qs \ {q.id} |-> qs[x]],
        heap |-> Truncate([i \in 1..Len(hp) |->
                             IF hp[i] = q.id THEN 0 ELSE hp[i]]),
        raised |-> FALSE]
  ELSE [questions |-> qs, heap |-> hp, raised |-> raises]

\* The requests that have looked up their question and not yet deleted it:
\* a bag of Question objects.
Hold(bag, q) ==
  [x \in DOMAIN bag \cup {q} |->
     IF x \in DOMAIN bag THEN (IF x = q THEN bag[x] + 1 ELSE bag[x]) ELSE 1]

Release(bag, q) ==
  [x \in {y \in DOMAIN bag : y # q \/ bag[y] > 1} |->
     IF x = q THEN bag[x] - 1 ELSE bag[x]]

(* ---------------------------------------------------------------------- *)
(* Responses.                                                              *)
(* ---------------------------------------------------------------------- *)
jsonify(body) == [status |-> 200, body |-> body]

not_found ==
  [status |-> 404,
   body |-> [success |-> FALSE, error |-> 404, message |-> "resource not found"]]

unprocessable ==
  [status |-> 422,
   body |-> [success |-> FALSE, error |-> 422, message |-> "unprocessable"]]

bad_request ==
  [status |-> 400,
   body |-> [success |-> FALSE, error |-> 400, message |-> "bad request"]]

\* An exception no handler catches: the framework's 500 page, not JSON.
UnhandledError == [status |-> 500, body |-> [html |-> TRUE]]

abort(code) ==
  CASE code = 404 -> not_found
    [] code = 422 -> unprocessable
    [] code = 400 -> bad_request

(* ---------------------------------------------------------------------- *)
(* The handlers.                                                           *)
(* ---------------------------------------------------------------------- *)
\* paginate_questions with the window starting one page late.
paginate_questions_late(args, selection) ==
  LET qlist == [i \in 1..Len(selection) |-> format(selection[i])]
      page == ArgsGetInt(args, "page", 1)
      start == page * QUESTIONS_PER_PAGE
      end == start + QUESTIONS_PER_PAGE
  IN  PySlice(qlist, start, end)

paginate_questions(args, selection) ==
  LET qlist == [i \in 1..Len(selection) |-> format(selection[i])]
      page == ArgsGetInt(args, "page", 1)
      start == (page - 1) * QUESTIONS_PER_PAGE
      end == start + QUESTIONS_PER_PAGE
  IN  PySlice(qlist, start, end)

\* GET /categories
retrieve_categories(cats) ==
  jsonify([success |-> TRUE, categories |-> cats])

\* retrieve_question without the check for an empty page.
retrieve_question_unchecked(args, qs, cats) ==
  LET all == QueryOrderById(qs)
  IN  jsonify([success |-> TRUE,
               total_questions |-> Len(all),
               questions |-> paginate_questions(args, all),
               current_category |-> None,
               categories |-> cats])

\* GET /questions
retrieve_question(args, qs, cats) ==
  LET all == QueryOrderById(qs)
      current_questions == paginate_questions(args, all)
  IN  IF Len(current_questions) = 0 THEN abort(404)
      ELSE jsonify([success |-> TRUE,
                    total_questions |-> Len(all),
                    questions |-> current_questions,
                    current_category |-> None,
                    categories |-> cats])

\* delete_question answering 404 for a question that does not exist.
delete_question_404(question, qs, hp, raises) ==
  IF question = <<>>
  THEN [questions |-> qs, heap |-> hp, response |-> abort(404)]
  ELSE LET left == delete(qs, hp, question[1], raises)
       IN  IF left.raised
           THEN [questions |-> qs, heap |-> hp, response |-> abort(422)]
           ELSE [questions |-> left.questions, heap |-> left.heap,
                 response |-> jsonify([success |-> TRUE])]

\* delete_question answering success without deleting.
delete_question_kept(question, qs, hp, raises) ==
  IF question = <<>>
  THEN [questions |-> qs, heap |-> hp, response |-> abort(422)]
  ELSE [questions |-> qs, heap |-> hp,
        response |-> jsonify([success |-> TRUE])]

\* DELETE /questions/<question_id>, from the question that
\* Question.query.get(question_id) returned: calling delete() on None raises,
\* and the bare except turns that, and whatever delete() raises, into 422.
delete_question(question, qs, hp, raises) ==
  IF question = <<>>
  THEN [questions |-> qs, heap |-> hp, response |-> abort(422)]
  ELSE LET left == delete(qs, hp, question[1], raises)
       IN  IF left.raised
           THEN [questions |-> qs, heap |-> hp, response |-> abort(422)]
           ELSE [questions |-> left.questions, heap |-> left.heap,
                 response |-> jsonify([success |-> TRUE])]

\* create_question taking the number of questions plus one as the new id.
create_question_counted(json, qs, hp, nid, slot) ==
  IF json = <<>>
  THEN [questions |-> qs, heap |-> hp, nextId |-> nid,
        response |-> abort(400)]
  ELSE LET stored ==
             insert(qs, hp, Cardinality(DOMAIN qs) + 1, json[1], slot)
       IN  [questions |-> stored.questions, heap |-> stored.heap,
            nextId |-> IF stored.nextId > nid THEN stored.nextId ELSE nid,
            response |-> jsonify([success |-> TRUE])]

\* POST /questions: with no body get_json() is None and body.get raises,
\* which the bare except turns into 400.
create_question(json, qs, hp, nid, slot) ==
  IF json = <<>>
  THEN [questions |-> qs, heap |-> hp, nextId |-> nid,
        response |-> abort(400)]
  ELSE LET body == json[1]
           field(k) == IF DictGet(body, k) = <<>> THEN None
                       ELSE DictGet(body, k)[1]
           row == [question |-> field("question"),
                   answer |-> field("answer"),
                   category |-> field("category"),
                   difficulty |-> field("difficulty")]
           stored == insert(qs, hp, nid, row, slot)
       IN  [questions |-> stored.questions, heap |-> stored.heap,
            nextId |-> stored.nextId,
            response |-> jsonify([success |-> TRUE])]

\* search_questions with a check for None before the search term is used.
search_questions_checked(json, qs, hp) ==
  LET search_term == DictGet(json[1], "searchTerm")
      all == QueryAll(qs, hp)
      matches(q) == StrIn(lower(search_term[1]), lower(q.row.question))
      hits == SelectSeq(all, matches)
      matched_questions == [i \in 1..Len(hits) |-> format(hits[i])]
  IN  IF search_term = <<>>
      THEN jsonify([success |-> TRUE, questions |-> <<>>,
                    total_questions |-> 0, current_category |-> None])
      ELSE jsonify([success |-> TRUE,
                    questions |-> matched_questions,
                    total_questions |-> Len(matched_questions),
                    current_category |-> None])

\* POST /search: search_term.lower() is evaluated once per question, so a
\* search term of None raises as soon as there is a question to test.
search_questions(json, qs, hp) ==
  LET search_term == DictGet(json[1], "searchTerm")
      all == QueryAll(qs, hp)
      matches(q) == StrIn(lower(search_term[1]), lower(q.row.question))
      hits == SelectSeq(all, matches)
      matched_questions == [i \in 1..Len(hits) |-> format(hits[i])]
  IN  IF search_term = <<>> /\ Len(all) > 0 THEN UnhandledError
      ELSE IF search_term = <<>>
      THEN jsonify([success |-> TRUE, questions |-> <<>>,
                    total_questions |-> 0, current_category |-> None])
      ELSE jsonify([success |-> TRUE,
                    questions |-> matched_questions,
                    total_questions |-> Len(matched_questions),
                    current_category |-> None])

\* get_category_questions answering 404 for a category without questions.
get_category_questions_strict(category_id, args, qs, hp, cats) ==
  IF CategoryGet(cats, category_id) = <<>> THEN abort(404)
  ELSE LET current_questions ==
             paginate_questions(args,
                                QueryFilterByCategory(qs, hp, category_id))
       IN  IF Len(current_questions) = 0 THEN abort(404)
           ELSE jsonify([success |-> TRUE,
                         questions |-> current_questions,
                         total_questions |-> Len(current_questions),
                         current_category |-> category_id])

\* get_category_questions paginating without the request's query string.
get_category_questions_first_page(category_id, args, qs, hp, cats) ==
  IF CategoryGet(cats, category_id) = <<>> THEN abort(404)
  ELSE LET current_questions ==
             paginate_questions(<<>>,
                                QueryFilterByCategory(qs, hp, category_id))
       IN  jsonify([success |-> TRUE,
                    questions |-> current_questions,
                    total_questions |-> Len(current_questions),
                    current_category |-> category_id])

\* GET /categories/<category_id>/questions
get_category_questions(category_id, args, qs, hp, cats) ==
  IF CategoryGet(cats, category_id) = <<>> THEN abort(404)
  ELSE LET current_questions ==
             paginate_questions(args,
                                QueryFilterByCategory(qs, hp, category_id))
       IN  jsonify([success |-> TRUE,
                    questions |-> current_questions,
                    total_questions |-> Len(current_questions),
                    current_category |-> category_id])

\* The elements of a list, as `id NOT IN (list)` sees them.
Elements(list) == {list[i] : i \in 1..Len(list)}

\* get_quiz_questions without the filter on the previous questions.
get_quiz_questions_repeating(json, qs, hp) ==
  LET category_id == json[1].quiz_category.id
      matching ==
        IF category_id # 0
        THEN {id \in DOMAIN qs : qs[id].category = category_id}
        ELSE DOMAIN qs
      question == QueryFirst(qs, hp, matching)
  IN  IF question = <<>> THEN jsonify([success |-> TRUE])
      ELSE jsonify([success |-> TRUE, question |-> format(question[1])])

\* get_quiz_questions without the filter on the category.
get_quiz_questions_any_category(json, qs, hp) ==
  LET previous_questions == json[1].previous_questions
      matching ==
        {id \in DOMAIN qs : id \notin Elements(previous_questions)}
      question == QueryFirst(qs, hp, matching)
  IN  IF question = <<>> THEN jsonify([success |-> TRUE])
      ELSE jsonify([success |-> TRUE, question |-> format(question[1])])

\* POST /quizzes
get_quiz_questions(json, qs, hp) ==
  LET data == json[1]
      previous_questions == data.previous_questions
      category_id == data.quiz_category.id
      matching ==
        IF category_id # 0
        THEN {id \in DOMAIN qs : /\ qs[id].category = category_id
                                 /\ id \notin Elements(previous_questions)}
        ELSE {id \in DOMAIN qs : id \notin Elements(previous_questions)}
      question == QueryFirst(qs, hp, matching)
  IN  IF question = <<>> THEN jsonify([success |-> TRUE])
      ELSE jsonify([success |-> TRUE, question |-> format(question[1])])

(* ---------------------------------------------------------------------- *)
(* The inputs of the requests.                                             *)
(* ---------------------------------------------------------------------- *)
\* The string of n characters c.
RECURSIVE Repeat(_, _)
Repeat(c, n) ==
  IF n = 0 THEN <<>>
  ELSE LET half == Repeat(c, n \div 2)
       IN  IF n % 2 = 0 THEN half \o half ELSE half \o half \o <<c>>

\* Values of the page parameter of the query string.
\* "1", "2", "1_0", "0", "-1"; "2" after a no-break space and before a
\* vertical tab; "2" in Arabic-Indic digits; "2" after a file separator,
\* which is not white space.
PageValues ==
  {<<49>>, <<50>>, <<49, 95, 48>>, <<48>>, <<45, 49>>, <<160, 50, 11>>,
   <<1634>>, <<28, 50>>}

\* Query strings: none, or ?page=<value>.
QueryStrings == {<<>>} \cup {<< <<"page", v>> >> : v \in PageValues}

\* A page value of one digit more than int() reads.  A request that only
\* reads is answered the same whenever it is made, and this one is made of
\* a server that has answered no request yet.
LongQueryStrings(last) ==
  IF last.route = "none"
  THEN {<< <<"page", Repeat(49, MaxStrDigits + 1)>> >>}
  ELSE {}

\* The categories the store is seeded with; category 3 has no question.
SeedCategories == <<"Science", "Art", "Geography">>

\* Category ids requests ask for: three that exist and one that does not.
CategoryIds == {1, 2, 3, 5}

\* The row the store is seeded with under id i.  The questions are "A" and
\* a capital E with an acute accent, "b" and a capital sigma, "t" and a
\* capital I with a dot above; the answer is "a".
SeedRow(i) ==
  [question |-> CASE i % 3 = 0 -> <<65, 201>>
                  [] i % 3 = 1 -> <<98, 931>>
                  [] OTHER -> <<116, 304>>,
   answer |-> <<97>>,
   category |-> IF i % 7 = 0 THEN 2 ELSE 1,
   difficulty |-> (i % 5) + 1]

\* JSON bodies of POST /questions: none, or a well-formed question of an
\* existing category or of a category that does not exist.
CreateBodies ==
  {<<>>} \cup
  {<<[question |-> <<97, 66>>, answer |-> <<98>>, category |-> c,
      difficulty |-> 2]>> : c \in {1, 4}}

\* JSON bodies of POST /search: a search term ("B", a small e with an acute
\* accent, a capital sigma, "i", the empty string), or a body without one.
SearchBodies ==
  {<<[searchTerm |-> t]>> : t \in {<<66>>, <<233>>, <<931>>, <<105>>, <<>>}}
  \cup {<<[query |-> <<97>>]>>}

\* Lists of previous questions of POST /quizzes: short ones, one with an id
\* the store never had, and the list of every id in the store.
PreviousLists(qs, nid) ==
  {<<>>, <<1>>, <<2, 1, 1>>, <<nid>>, Ascending(DOMAIN qs)}

\* Category ids of a quiz: 0 for all categories.
QuizCategories == {0, 1, 2, 3}

QuizBody(previous_questions, category_id) ==
  <<[previous_questions |-> previous_questions,
     quiz_category |-> [type |-> "click", id |-> category_id]]>>

\* The ids of a seq in the opposite order.
Reverse(seq) == [i \in 1..Len(seq) |-> seq[Len(seq) + 1 - i]]

\* The orders in which the store may hold the questions it is seeded with:
\* loaded by ascending id, or the other way round.
SeedHeaps(S) == {Ascending(S), Reverse(Ascending(S))}

\* The ids DELETE /questions/{id} is asked for: none that exists (0, the
\* next id, an id deleted before), the first two and the last one.
DeleteIds(nid) == {0, 1, 2, nid - 1, nid}

(* ---------------------------------------------------------------------- *)
(* The state machine: one action per request.                              *)
(* ---------------------------------------------------------------------- *)
Init ==
  /\ \E n \in 0..MaxSeed :
       /\ questions = [i \in 1..n |-> SeedRow(i)]
       /\ heap \in SeedHeaps(1..n)
       /\ nextId = n + 1
  /\ categories = SeedCategories
  /\ pending = <<>>
  /\ request = [route |-> "none"]
  /\ response = [status |-> 0]
  /\ ops = 0
  /\ deleted = {}
  /\ round = "idle"
  /\ quizCat = 0
  /\ prev = <<>>

Client == <<round, quizCat, prev>>

RetrieveCategories ==
  /\ request' = [route |-> "GET /categories"]
  /\ response' = retrieve_categories(categories)
  /\ UNCHANGED <<questions, heap, categories, nextId, pending, ops, deleted,
                 Client>>

RetrieveQuestion(Args) ==
  \E args \in Args :
    /\ request' = [route |-> "GET /questions", args |-> args]
    /\ response' = retrieve_question(args, questions, categories)
    /\ UNCHANGED <<questions, heap, categories, nextId, pending, ops, deleted,
                 Client>>

\* DELETE /questions/<question_id>, up to Question.query.get(question_id).
\* With no such question the rest of the handler does not reach the store
\* and the request is answered here.
DeleteQuestionLookup ==
  \E question_id \in DeleteIds(nextId) :
    LET question == QueryGet(questions, question_id)
        r == delete_question(question, questions, heap, TRUE)
    IN  IF question = <<>>
        THEN /\ request' = [route |-> "DELETE /questions",
                            id |-> question_id, question |-> question]
             /\ response' = r.response
             /\ questions' = r.questions
             /\ heap' = r.heap
             /\ UNCHANGED <<categories, nextId, pending, ops, deleted,
                            Client>>
        ELSE /\ ops < MaxOps
             /\ pending' = Hold(pending, question[1])
             /\ ops' = ops + 1
             /\ request' = [route |-> "DELETE /questions: get",
                            id |-> question_id]
             /\ response' = [status |-> 0]
             /\ UNCHANGED <<questions, heap, categories, nextId, deleted,
                            Client>>

\* DELETE /questions/<question_id>, from question.delete() on, for a request
\* that has looked up its question.
DeleteQuestionCommit ==
  \E question \in DOMAIN pending, raises \in BOOLEAN :
    LET r == delete_question(<<question>>, questions, heap, raises)
    IN  /\ request' = [route |-> "DELETE /questions", id |-> question.id,
                       question |-> <<question>>]
        /\ response' = r.response
        /\ questions' = r.questions
        /\ heap' = r.heap
        /\ pending' = Release(pending, question)
        /\ deleted' = IF r.response.status = 200
                      THEN deleted \cup {question.id} ELSE deleted
        /\ UNCHANGED <<categories, nextId, ops, Client>>

CreateQuestion ==
  \E json \in CreateBodies, slot \in Slots(heap) :
    LET r == create_question(json, questions, heap, nextId, slot)
    IN  /\ r.response.status = 200 => ops < MaxOps
        /\ request' = [route |-> "POST /questions", json |-> json]
        /\ response' = r.response
        /\ questions' = r.questions
        /\ heap' = r.heap
        /\ nextId' = r.nextId
        /\ ops' = IF r.response.status = 200 THEN ops + 1 ELSE ops
        /\ UNCHANGED <<categories, pending, deleted, Client>>

SearchQuestions(Bodies) ==
  \E json \in Bodies :
    /\ request' = [route |-> "POST /search", json |-> json]
    /\ response' = search_questions(json, questions, heap)
    /\ UNCHANGED <<questions, heap, categories, nextId, pending, ops, deleted,
                 Client>>

GetCategoryQuestions(Ids, Args) ==
  \E category_id \in Ids, args \in Args :
    /\ request' = [route |-> "GET /categories/questions",
                   id |-> category_id, args |-> args]
    /\ response' =
         get_category_questions(category_id, args, questions, heap,
                                categories)
    /\ UNCHANGED <<questions, heap, categories, nextId, pending, ops, deleted,
                 Client>>

GetQuizQuestions(Lists, Ids) ==
  \E previous_questions \in Lists, category_id \in Ids :
    LET json == QuizBody(previous_questions, category_id)
    IN  /\ request' = [route |-> "POST /quizzes", json |-> json]
        /\ response' = get_quiz_questions(json, questions, heap)
        /\ UNCHANGED <<questions, heap, categories, nextId, pending, ops, deleted,
                 Client>>

\* Every request, interleaved in any order.  The requests that only read
\* draw their inputs from a few values here and from all of them in SpecRead.
Next ==
  \/ RetrieveCategories
  \/ RetrieveQuestion({<<>>, << <<"page", <<50>> >> >>})
  \/ DeleteQuestionLookup
  \/ DeleteQuestionCommit
  \/ CreateQuestion
  \/ SearchQuestions({<<[searchTerm |-> <<97>>]>>})
  \/ GetCategoryQuestions({1}, {<<>>})
  \/ GetQuizQuestions({<<>>}, {0, 1})

Spec == Init /\ [][Next]_vars

(* ---------------------------------------------------------------------- *)
(* The requests that only read, on every input, against a store seeded    *)
(* with any number of questions, with or without a gap in the ids.         *)
(* ---------------------------------------------------------------------- *)
InitRead ==
  /\ \E n \in 0..MaxSeed : \E gap \in 0..n :
       /\ questions = [i \in (1..n) \ {gap} |-> SeedRow(i)]
       /\ heap \in SeedHeaps((1..n) \ {gap})
       /\ nextId = n + 1
  /\ categories = SeedCategories
  /\ pending = <<>>
  /\ request = [route |-> "none"]
  /\ response = [status |-> 0]
  /\ ops = 0
  /\ deleted = {}
  /\ round = "idle"
  /\ quizCat = 0
  /\ prev = <<>>

NextRead ==
  \/ RetrieveCategories
  \/ RetrieveQuestion(QueryStrings \cup LongQueryStrings(request))
  \/ SearchQuestions(SearchBodies)
  \/ GetCategoryQuestions(CategoryIds,
                          QueryStrings \cup LongQueryStrings(request))
  \/ GetQuizQuestions(PreviousLists(questions, nextId), QuizCategories)

SpecRead == InitRead /\ [][NextRead]_vars

(* ---------------------------------------------------------------------- *)
(* A quiz round: the client picks a category, starts with no previous     *)
(* questions and calls POST /quizzes, appending the id of each question   *)
(* it gets, until a response carries no question.  No request of another  *)
(* client changes the store during the round.                              *)
(* ---------------------------------------------------------------------- *)
StartRound ==
  /\ round = "idle"
  /\ \E c \in QuizCategories : quizCat' = c
  /\ round' = "playing"
  /\ prev' = <<>>
  /\ UNCHANGED <<questions, heap, categories, nextId, pending, request,
                 response, ops, deleted>>

QuizCall ==
  /\ round = "playing"
  /\ LET json == QuizBody(prev, quizCat)
         r == get_quiz_questions(json, questions, heap)
     IN  /\ request' = [route |-> "POST /quizzes", json |-> json]
         /\ response' = r
         /\ IF "question" \in DOMAIN r.body
            THEN /\ prev' = Append(prev, r.body.question.id)
                 /\ round' = "playing"
            ELSE /\ prev' = prev
                 /\ round' = "done"
  /\ UNCHANGED <<questions, heap, categories, nextId, pending, ops, deleted,
                 quizCat>>

NextRound == StartRound \/ QuizCall

SpecRound == InitRead /\ [][NextRound]_vars /\ WF_vars(QuizCall)

(* ====================================================================== *)
(* The properties.                                                         *)
(* ====================================================================== *)
Total == Cardinality(DOMAIN questions)

\* The page number a query string asks for.
PageOf(args) == ArgsGetInt(args, "page", 1)

\* The number of ids of S below id: its 0-based position by ascending id.
Rank(S, id) == Cardinality({j \in S : j < id})

\* The slot of the heap that holds the row of id.
SlotOf(id) == CHOOSE i \in 1..Len(heap) : heap[i] = id

\* The number of ids of S the store keeps before id: its 0-based position
\* in a query that asks for no order.
StoreRank(S, id) == Cardinality({j \in S : SlotOf(j) < SlotOf(id)})

\* A question of the store as a response lists it.
Listed(id) ==
  [id |-> id, question |-> questions[id].question,
   answer |-> questions[id].answer, category |-> questions[id].category,
   difficulty |-> questions[id].difficulty]

\* The 0-based positions of a list of length len that seq[start:end] takes.
Window(len, start, end) ==
  LET norm(x) == IF x < 0 THEN x + len ELSE x
  IN  {i \in 0..(len - 1) : norm(start) <= i /\ i < norm(end)}

\* The ids a list of questions in a response carries.
IdsOf(list) == {list[i].id : i \in 1..Len(list)}

IsList == request.route = "GET /questions"
IsCategoryList == request.route = "GET /categories/questions"
IsSearch == request.route = "POST /search"
IsQuiz == request.route = "POST /quizzes"
IsDelete == request.route = "DELETE /questions"
IsCreate == request.route = "POST /questions"

(* ---------------------------------------------------------------------- *)
\* C1: GET /questions?page=N answers 404 "resource not found" whenever the
\* page's slice of the list of all questions is empty, page 1 of an empty
\* store included, and 200 only with a non-empty list of questions.
C1_EmptyPageNotFound ==
  IsList =>
    LET page == PageOf(request.args)
        slice == Window(Total, (page - 1) * 10, (page - 1) * 10 + 10)
    IN  /\ slice = {} =>
             /\ response.status = 404
             /\ response.body.success = FALSE
             /\ response.body.message = "resource not found"
        /\ slice # {} => response.status = 200
        /\ response.status = 200 => response.body.questions # <<>>

\* Page 1 of a store with no question was asked for and refused.
C1_Witness ==
  /\ IsList
  /\ Total = 0
  /\ PageOf(request.args) = 1
  /\ response.status = 404

(* ---------------------------------------------------------------------- *)
\* C9: a page N >= 1 of GET /questions that is not empty carries at most
\* 10 questions, the ones at positions (N-1)*10 .. (N-1)*10+9 of all the
\* questions by ascending id, and total_questions counts the whole store;
\* the pages are disjoint and every question is on exactly one of them.
PageIds(n) ==
  LET r == retrieve_question(<< <<"page", <<48 + n>> >> >>,
                             questions, categories)
  IN  IF r.status = 200 THEN IdsOf(r.body.questions) ELSE {}

C9_PageWindow ==
  /\ (IsList /\ response.status = 200 /\ PageOf(request.args) >= 1) =>
       LET first == (PageOf(request.args) - 1) * 10
           list == response.body.questions
       IN  /\ Len(list) <= 10
           /\ Len(list) = IF Total - first < 10 THEN Total - first ELSE 10
           /\ \A i \in 1..Len(list) :
                /\ list[i].id \in DOMAIN questions
                /\ Rank(DOMAIN questions, list[i].id) = first + i - 1
                /\ list[i] = Listed(list[i].id)
           /\ response.body.total_questions = Total
  /\ \A id \in DOMAIN questions :
       Cardinality({n \in 1..9 : id \in PageIds(n)}) = 1

\* The second page of a store of more than ten questions was returned.
C9_Witness ==
  /\ IsList
  /\ response.status = 200
  /\ PageOf(request.args) = 2
  /\ Total > 11
  /\ Len(response.body.questions) = Total - 10

(* ---------------------------------------------------------------------- *)
\* C5: GET /categories/{id}/questions answers 404 exactly when there is no
\* category with that id; a category without questions answers 200 with
\* success, an empty list and current_category = id.
C5_CategoryNotFoundOnly ==
  IsCategoryList =>
    /\ response.status = 404 <=> request.id \notin DOMAIN categories
    /\ response.status \in {200, 404}
    /\ ( /\ request.id \in DOMAIN categories
         /\ \A q \in DOMAIN questions : questions[q].category # request.id )
       => /\ response.status = 200
          /\ response.body.success = TRUE
          /\ response.body.questions = <<>>
          /\ response.body.current_category = request.id

\* A category that exists and has no question was listed, in a store that
\* has questions.
C5_Witness ==
  /\ IsCategoryList
  /\ request.id \in DOMAIN categories
  /\ Total > 0
  /\ \A q \in DOMAIN questions : questions[q].category # request.id
  /\ response.status = 200

(* ---------------------------------------------------------------------- *)
\* The questions of a category at the 0-based positions first .. first+9
\* of the order in which the store returns them.
CategorySlice(category_id, first) ==
  LET ids == {q \in DOMAIN questions : questions[q].category = category_id}
  IN  {q \in ids : /\ first <= StoreRank(ids, q)
                   /\ StoreRank(ids, q) < first + 10}

\* C7 as stated: GET /categories/{id}/questions of an existing category
\* returns the first 10 (or fewer) questions of the category whatever the
\* page parameter is.
C7_PageIgnored ==
  (IsCategoryList /\ response.status = 200) =>
    IdsOf(response.body.questions) = CategorySlice(request.id, 0)

\* C7: GET /categories/{id}/questions of an existing category reads the page
\* parameter as GET /questions does: page N >= 1 (1 when absent or not a
\* number) returns the category's questions at positions (N-1)*10 ..
\* (N-1)*10+9 of the order in which the store returns them, an empty list
\* included, and total_questions is the length of the returned list.
C7_PageHonoured ==
  (IsCategoryList /\ response.status = 200 /\ PageOf(request.args) >= 1) =>
    LET first == (PageOf(request.args) - 1) * 10
        list == response.body.questions
        ids == {q \in DOMAIN questions : questions[q].category = request.id}
    IN  /\ IdsOf(list) = CategorySlice(request.id, first)
        /\ Len(list) = Cardinality(IdsOf(list))
        /\ \A i \in 1..Len(list) :
             /\ StoreRank(ids, list[i].id) = first + i - 1
             /\ list[i] = Listed(list[i].id)
        /\ response.body.total_questions = Len(list)

\* Page 2 of a category of more than ten questions, which the store does
\* not keep by ascending id, returned its eleventh.
C7_Witness ==
  /\ IsCategoryList
  /\ response.status = 200
  /\ Len(heap) > 1
  /\ heap[1] > heap[2]
  /\ request.args = << <<"page", <<50>> >> >>
  /\ Cardinality(CategorySlice(request.id, 0)) = 10
  /\ Len(response.body.questions) = 1

(* ---------------------------------------------------------------------- *)
HasSearchTerm == "searchTerm" \in DOMAIN request.json[1]

\* C8 as stated: POST /search without a searchTerm never answers 200 with
\* success, whatever the store holds.
C8_AlwaysFails ==
  (IsSearch /\ ~HasSearchTerm) =>
    ~(response.status = 200 /\ response.body.success)

\* C8: POST /search without a searchTerm fails with an unhandled error
\* exactly when the store holds at least one question; on a store with no
\* question it answers 200 with success, no questions and total 0.
C8_FailsOnQuestions ==
  (IsSearch /\ ~HasSearchTerm) =>
    /\ Total > 0 => response.status = 500
    /\ Total = 0 =>
         /\ response.status = 200
         /\ response.body.success = TRUE
         /\ response.body.questions = <<>>
         /\ response.body.total_questions = 0

\* A search without a search term failed on a store with questions.
C8_Witness ==
  /\ IsSearch
  /\ ~HasSearchTerm
  /\ Total > 0
  /\ response.status = 500

(* ---------------------------------------------------------------------- *)
\* The questions a quiz may draw: not among the previous ones and, unless
\* the category id is 0, of that category.
Eligible(previous, category_id) ==
  {q \in DOMAIN questions :
     /\ \A i \in 1..Len(previous) : previous[i] # q
     /\ category_id = 0 \/ questions[q].category = category_id}

\* C6: POST /quizzes always answers 200 with success; a question it returns
\* is not among previous_questions and is of the quiz category unless that
\* is 0; the question field is missing exactly when no question qualifies.
C6_QuizDrawsEligible ==
  IsQuiz =>
    LET data == request.json[1]
        eligible == Eligible(data.previous_questions, data.quiz_category.id)
    IN  /\ response.status = 200
        /\ response.body.success = TRUE
        /\ "question" \in DOMAIN response.body <=> eligible # {}
        /\ "question" \in DOMAIN response.body =>
             /\ response.body.question.id \in eligible
             /\ response.body.question = Listed(response.body.question.id)

\* A quiz over all categories whose previous questions are every question of
\* the store got no question.
C6_Witness ==
  /\ IsQuiz
  /\ request.json[1].quiz_category.id = 0
  /\ Total > 1
  /\ DOMAIN questions \subseteq Elements(request.json[1].previous_questions)
  /\ response.status = 200
  /\ "question" \notin DOMAIN response.body

(* ---------------------------------------------------------------------- *)
\* C10: a quiz round with a fixed category and no create or delete in
\* between ends: each of the k questions of the category is returned once,
\* by the first k calls, and call k+1 returns no question.
C10_RoundEnds ==
  /\ [](round # "idle" =>
          /\ Elements(prev) \subseteq Eligible(<<>>, quizCat)
          /\ Cardinality(Elements(prev)) = Len(prev))
  /\ [](round = "done" =>
          /\ Elements(prev) = Eligible(<<>>, quizCat)
          /\ "question" \notin DOMAIN response.body)
  /\ (round = "playing" ~> round = "done")

\* A round over a category of several questions has ended.
C10_Witness ==
  /\ round = "done"
  /\ quizCat # 0
  /\ Len(prev) > 2
  /\ Len(prev) < Total

(* ---------------------------------------------------------------------- *)
Success == [status |-> 200, body |-> [success |-> TRUE]]

\* C2: DELETE /questions/{id} of an id that is in the store when the handler
\* deletes it answers 200 with success and removes that question only; from
\* then on the id is not in the store and on no page of GET /questions,
\* whatever is created, deleted or read, and a question leaves the store
\* only by its own deletion.
C2_DeletedStaysAbsent ==
  /\ [](\A id \in deleted : id \notin DOMAIN questions)
  /\ []((IsList /\ response.status = 200) =>
          IdsOf(response.body.questions) \cap deleted = {})
  /\ [][(IsDelete' /\ request'.id \in DOMAIN questions) =>
          /\ response' = Success
          /\ DOMAIN questions' = DOMAIN questions \ {request'.id}
          /\ \A id \in DOMAIN questions' : questions'[id] = questions[id]]_vars
  /\ [][\A id \in DOMAIN questions :
          id \in DOMAIN questions' \/ (IsDelete' /\ request'.id = id)]_vars

\* After a delete and a create, a page of questions was returned: the store
\* is as large as it was seeded, one seeded id is gone and the last id is
\* a created question's.
C2_Witness ==
  /\ IsList
  /\ response.status = 200
  /\ Cardinality(deleted) = 1
  /\ deleted \subseteq 1..(nextId - 2)
  /\ nextId - 1 \in DOMAIN questions
  /\ questions[nextId - 1].answer = <<98>>
  /\ Total = nextId - 2

(* ---------------------------------------------------------------------- *)
\* C3: DELETE /questions/{id} of an id not in the store changes neither the
\* questions nor the categories and never answers 404; when the handler's
\* lookup finds no question it answers 422 with success false, error 422 and
\* message "unprocessable".
C3_MissingDeleteUnprocessable ==
  [][(IsDelete' /\ request'.id \notin DOMAIN questions) =>
       /\ questions' = questions
       /\ heap' = heap
       /\ categories' = categories
       /\ response'.status # 404
       /\ request'.question = <<>> =>
            /\ response'.status = 422
            /\ response'.body =
                 [success |-> FALSE, error |-> 422,
                  message |-> "unprocessable"]]_vars

\* A question that had been deleted was looked up by a later delete, not
\* found and refused.
C3_Witness ==
  /\ IsDelete
  /\ request.id \in deleted
  /\ request.question = <<>>
  /\ Total > 0
  /\ response.status = 422

(* ---------------------------------------------------------------------- *)
\* C4: POST /questions with a well-formed body answers 200 with success only;
\* the store has one question more, which GET /questions reports as
\* total_questions; the questions there were are unchanged and the new one
\* has an id no question has and holds the fields of the body.
C4_CreateAddsOne ==
  [][(IsCreate' /\ request'.json # <<>>) =>
       /\ response' = Success
       /\ Cardinality(DOMAIN questions') = Total + 1
       /\ retrieve_question(<<>>, questions', categories').body.total_questions
            = Total + 1
       /\ \A id \in DOMAIN questions :
            id \in DOMAIN questions' /\ questions'[id] = questions[id]
       /\ \E new \in DOMAIN questions' \ DOMAIN questions :
            questions'[new] = request'.json[1]]_vars

\* A question was created in a store whose ids have a gap.
C4_Witness ==
  /\ IsCreate
  /\ response.status = 200
  /\ deleted # {}
  /\ nextId - 1 \in DOMAIN questions
  /\ questions[nextId - 1].category = 4

====
